---- MODULE Spec2Model ----
(***************************************************************************)
(* Chunked download manager of src-tauri/src/chunked_download.rs:          *)
(* the registry of downloads, the progress and partial files on disk, the  *)
(* global semaphore, the download_file task of every start/resume and its  *)
(* chunk tasks.                                                            *)
(***************************************************************************)
EXTENDS Integers, Sequences, FiniteSets, TLC

\* ------------------------------------------------------------------ bounds
\* Largest Content-Length the probed server reports, in bytes.
MaxSize == 3
\* download_file invocations (the start and the resumes after it).
MaxRuns == 2
\* The limiter's K: Semaphore::new(MAX_PARALLEL_DOWNLOADS), 8 in the source,
\* scaled so that chunk tasks can outnumber the slots.
MAX_PARALLEL_DOWNLOADS == 2
\* Chunk size in bytes: 64 MiB in the source, scaled to 2 bytes.
CHUNK_SIZE == 2
\* u64::MAX, the largest Content-Length that parses: 2^64 - 1 in the source,
\* scaled to 4 bits.
U64_MAX == 15

Sizes == 0..MaxSize

\* ------------------------------------------------------------- Option<T>
None == <<>>
Some(x) == <<x>>
IsSome(o) == o /= <<>>
Unwrap(o) == o[1]

Min(a, b) == IF a < b THEN a ELSE b

\* ------------------------------------------------------- remote resource
\* The byte the server holds at file offset p (0-based): never 0, so that a
\* hole of the pre-sized file differs from every downloaded byte.
SourceByte(p) == p + 1
\* The body of a range response: the n bytes from offset p.
SourceBytes(p, n) == [k \in 1..n |-> SourceByte(p + k - 1)]
Source(total_size) == SourceBytes(0, total_size)
Zeros(n) == [k \in 1..n |-> 0]

\* --------------------------------------------------------------- Hasher
\* compute_sha256: the lowercase hex digest of the file's content. The digest
\* is injective in the content; `upper` tells the case of the hex letters.
compute_sha256(content) == [of |-> content, upper |-> FALSE]
to_lowercase(h) == [h EXCEPT !.upper = FALSE]
to_uppercase(h) == [h EXCEPT !.upper = TRUE]
\* A digest no file of the model has.
WrongHash == [of |-> <<-1>>, upper |-> FALSE]
\* expected_sha256 as the caller may supply it for a resource of total_size.
ExpectedHashes(total_size) ==
    { None,
      Some(to_uppercase(compute_sha256(Source(total_size)))),
      Some(WrongHash) }

\* A comparison that accepts every digest.
NeverMismatch(actual, expected) == FALSE

HashMismatch(actual, expected) == to_lowercase(actual) /= to_lowercase(expected)

\* ---------------------------------------------------------- ChunkPlanner
\* total_size + CHUNK_SIZE - 1 is u64 arithmetic: a release build wraps
\* around past U64_MAX (a debug build panics, see StartPanics).
Overflows(total_size) == total_size + CHUNK_SIZE - 1 > U64_MAX
num_chunks(total_size) ==
    ((total_size + CHUNK_SIZE - 1) % (U64_MAX + 1)) \div CHUNK_SIZE
chunk_start(i) == i * CHUNK_SIZE
chunk_end(i, total_size) == Min(chunk_start(i) + CHUNK_SIZE - 1, total_size - 1)
\* Vec<ChunkStatus>, element k holding index k - 1.
PlanChunks(total_size) ==
    [k \in 1..num_chunks(total_size) |->
        [index |-> k - 1,
         start |-> chunk_start(k - 1),
         end |-> chunk_end(k - 1, total_size),
         downloaded |-> 0,
         complete |-> FALSE]]

\* ------------------------------------------------------------------ state
VARIABLES
    downloads,      \* registry: HashMap<String, ActiveDownload>
    progress_file,  \* disk: <id>.progress.json, id -> DownloadProgress
    partial_path,   \* disk: <id>.partial, id -> inode
    output_file,    \* disk: the destination path of id -> inode
    inodes,         \* disk: inode -> content, the bytes of a linked file
    permits,        \* Semaphore: slots available
    runs,           \* the download_file tasks spawned so far
    next_id,        \* ids handed out so far
    at_crash,       \* history: id -> chunks complete in the registry when the
                    \* process was killed
    ret,            \* what the last command returned to its caller, where the
                    \* caller's view is recorded
    locks           \* who holds and who awaits the registry's RwLock, a
                    \* session's flag RwLock and the file Mutex, where the
                    \* guards' scopes are followed step by step

vars == <<downloads, progress_file, partial_path, output_file, inodes,
          permits, runs, next_id, at_crash, ret, locks>>

disk == <<progress_file, partial_path, output_file, inodes>>

Registered(id) == id \in DOMAIN downloads

\* A removal that empties the map.
RemoveAll(map, k) == << >>

\* HashMap::insert and HashMap::remove.
Insert(map, k, v) == [x \in DOMAIN map \cup {k} |-> IF x = k THEN v ELSE map[x]]
Remove(map, k) == [x \in DOMAIN map \ {k} |-> map[x]]

\* The inodes some path still names; an unlinked file's bytes can no longer be
\* read by path, so its content is dropped.
LinkedInodes(pp, of) == {pp[x] : x \in DOMAIN pp} \cup {of[x] : x \in DOMAIN of}
Keep(files, pp, of) == [i \in DOMAIN files \cap LinkedInodes(pp, of) |-> files[i]]

\* write_all at `cursor` of an open file: bytes land from the cursor on, the
\* file growing (zero-filled) when the write passes its end.
WriteAt(content, cursor, bytes) ==
    LET n == IF cursor + Len(bytes) > Len(content)
             THEN cursor + Len(bytes) ELSE Len(content)
    IN [k \in 1..n |->
          IF k > cursor /\ k <= cursor + Len(bytes) THEN bytes[k - cursor]
          ELSE IF k <= Len(content) THEN content[k] ELSE 0]

\* Result<T, String>.
Ok(value) == [ok |-> TRUE, value |-> <<value>>, err |-> ""]
Err(e) == [ok |-> FALSE, value |-> << >>, err |-> e]

\* No caller's view is recorded.
Unobserved ==
    [observed |-> FALSE, calls |-> 0, op |-> "", id |-> 0, result |-> Ok(<<>>),
     prev |-> <<"", 0>>]
\* The view of a caller that has made no call yet.
NoCall == [Unobserved EXCEPT !.observed = TRUE]

\* The command `op` returns `result` for `id`.
Returns(op, id, result) ==
    IF ret.observed
    THEN [observed |-> TRUE, calls |-> ret.calls + 1,
          op |-> op, id |-> id, result |-> result,
          prev |-> <<ret.op, ret.id>>]
    ELSE ret

\* DownloadManagerState::default() on an empty download directory, the
\* semaphore holding `slots` permits.
Fresh(slots) ==
    /\ downloads = << >>
    /\ progress_file = << >>
    /\ partial_path = << >>
    /\ output_file = << >>
    /\ inodes = << >>
    /\ permits = slots
    /\ runs = << >>
    /\ next_id = 0
    /\ at_crash = << >>

\* The program as the specifications below start it, no caller's view
\* recorded and no guard followed.
Boot(slots) ==
    /\ Fresh(slots)
    /\ ret = Unobserved
    /\ locks = << >>

Init == Boot(MAX_PARALLEL_DOWNLOADS)

\* ------------------------------------------------------- spawned tasks
\* A download_file task as tokio::spawn creates it, at its first statement.
NewRun(id, resumed, output_path, progress) ==
    [id |-> id,
     resumed |-> resumed,      \* spawned by resume_download
     output_path |-> output_path,
     progress |-> progress,    \* the record the spawning call built or loaded
     total_size |-> progress.total_size,
     expected_sha256 |-> progress.expected_sha256,
     pc |-> "create",
     result |-> None,          \* Err(e) of download_file once it returned one
     first_error |-> None,     \* history: Err of the chunk task that failed first
     handle |-> 0,             \* inode of the shared File, 0 before the open
     cursor |-> 0,             \* the shared File's seek position
     file_lock |-> 0,          \* Mutex<File>: chunk holding the guard, 0 if free
     actual |-> None,          \* digest compute_sha256 returned
     chunks_to_download |-> << >>,  \* chunks cloned for the fan-out
     events |-> << >>,         \* history: events the run's emits delivered
     tasks |-> << >>]          \* chunk tasks spawned, by chunk position

\* app.emit(event, ..) of a run returning Ok: the event reaches the listeners.
Emit(rs, r, event) == [rs EXCEPT ![r].events = Append(@, event)]

\* A chunk task as tokio::spawn creates it, with its clone of the chunk.
NewTask(chunk) ==
    [chunk |-> chunk,
     pc |-> "wait",
     offset |-> chunk.start,
     chunk_downloaded |-> 0,
     bytes |-> 0,              \* length of the segment in hand
     requests |-> 0,           \* history: range requests the task has sent
     result |-> None]

\* A chunk task that returned: its locals are dropped, its JoinHandle holds
\* the result.
Returned(task, pc, result) ==
    [NewTask(task.chunk) EXCEPT !.pc = pc, !.offset = 0, !.result = result,
                                !.requests = task.requests]

\* Once download_file and the spawned handler have returned and every chunk
\* task with them, nothing of the run's state is left.
Finished(run) ==
    /\ run.pc \in {"done", "killed"}
    /\ \A k \in DOMAIN run.tasks : run.tasks[k].pc \in {"ok", "err"}

Reap(rs) ==
    [r \in DOMAIN rs |->
        IF Finished(rs[r])
        THEN [NewRun(rs[r].id, rs[r].resumed, rs[r].output_path, rs[r].progress)
                EXCEPT !.pc = rs[r].pc, !.events = rs[r].events]
        ELSE rs[r]]

Sum(f) ==
    LET S[k \in 0..Len(f)] == IF k = 0 THEN 0 ELSE S[k - 1] + f[k]
    IN S[Len(f)]

Count(chunks) == Cardinality({k \in DOMAIN chunks : chunks[k].complete})

\* ------------------------------------------------------ control surface
\* A save that returns Ok without having written the file.
SaveLost(files, id, progress) == files

\* A save that does not replace a record that is already there.
SaveKeepsOld(files, id, progress) ==
    IF id \in DOMAIN files THEN files ELSE Insert(files, id, progress)

\* save_progress(progress): fs::write of the serialized record.
SaveProgress(files, id, progress) == Insert(files, id, progress)

\* start_chunked_download once the probe answered total_size with
\* Accept-Ranges: bytes. emit_ok is whether app.emit("download-started")
\* succeeded: if not, the call returns Err after the session was registered
\* and nothing is spawned.
start_chunked_download(total_size, expected_sha256, output_path, emit_ok) ==
    LET id == next_id + 1
        progress == [total_size |-> total_size,
                     expected_sha256 |-> expected_sha256,
                     chunks |-> PlanChunks(total_size)]
        status == [total_size |-> total_size,
                   downloaded |-> 0,
                   progress |-> 0,
                   status |-> "Downloading",
                   chunks_completed |-> 0,
                   chunks_total |-> num_chunks(total_size),
                   error |-> None,
                   sha256 |-> expected_sha256,
                   output_path |-> output_path]
        active == [status |-> status, progress |-> progress, cancel_flag |-> FALSE]
    IN /\ next_id' = id
       /\ progress_file' = SaveProgress(progress_file, id, progress)
       /\ downloads' = Insert(downloads, id, active)
       /\ runs' = IF emit_ok
                  THEN Emit(Append(runs, NewRun(id, FALSE, output_path, progress)),
                            Len(runs) + 1, "download-started")
                  ELSE runs
       /\ ret' = Returns("start", id, IF emit_ok THEN Ok(id) ELSE Err("Emit error"))
       /\ UNCHANGED <<partial_path, output_file, inodes, permits, at_crash, locks>>

\* start_chunked_download when save_progress returns Err: the `?` returns
\* from the command with the id generated and nothing else done.
StartSaveFails ==
    /\ next_id' = next_id + 1
    /\ ret' = Returns("start", next_id + 1, Err("Write error"))
    /\ UNCHANGED <<downloads, disk, permits, runs, at_crash, locks>>

\* A lookup that reports success on a missing id.
FoundAnyway == Ok(<<>>)

\* What pause_download and get_download_status return when the registry does
\* not hold the id.
NotFound == Err("Download not found")

\* pause_download(id), the save succeeding: flag, Paused and the save under
\* the registry's write lock; Err for an id the registry does not hold.
pause_download(id) ==
    /\ IF Registered(id)
       THEN /\ downloads' = [downloads EXCEPT ![id].cancel_flag = TRUE,
                                              ![id].status.status = "Paused"]
            /\ progress_file' =
                  SaveProgress(progress_file, id, downloads[id].progress)
            /\ ret' = Returns("pause", id, Ok(<<>>))
       ELSE /\ ret' = Returns("pause", id, NotFound)
            /\ UNCHANGED <<downloads, progress_file>>
    /\ UNCHANGED <<partial_path, output_file, inodes, permits, runs, next_id,
                   at_crash, locks>>

\* A progress file whose content is not a DownloadProgress in JSON.
Unparseable == [garbage |-> TRUE]

\* serde_json::from_str(&content).ok()
from_str(content) ==
    IF DOMAIN content = {"total_size", "expected_sha256", "chunks"}
    THEN Some(content)
    ELSE None

\* A loader that makes up an empty record when it finds none.
LoadDefault(id) ==
    IF id \in DOMAIN progress_file /\ IsSome(from_str(progress_file[id]))
    THEN from_str(progress_file[id])
    ELSE Some([total_size |-> 0, expected_sha256 |-> None, chunks |-> << >>])

\* load_progress(id): the record of the progress file, None when the file
\* cannot be read or does not parse.
load_progress(id) ==
    IF id \in DOMAIN progress_file THEN from_str(progress_file[id]) ELSE None

\* resume_download(id), load_progress finding no record: Err.
ResumeWithoutRecord(id) ==
    /\ ~IsSome(load_progress(id))
    /\ ret' = Returns("resume", id, Err("No progress file found"))
    /\ UNCHANGED <<downloads, disk, permits, runs, next_id, at_crash, locks>>

\* resume_download(id), load_progress finding a record.
ResumeFromRecord(id) ==
    /\ IsSome(load_progress(id))
    /\ LET progress == Unwrap(load_progress(id))
           status == [total_size |-> progress.total_size,
                      downloaded |->
                          Sum([k \in DOMAIN progress.chunks |->
                                  progress.chunks[k].downloaded]),
                      progress |-> 0,
                      status |-> "Downloading",
                      chunks_completed |-> Count(progress.chunks),
                      chunks_total |-> Len(progress.chunks),
                      error |-> None,
                      sha256 |-> progress.expected_sha256,
                      output_path |-> ""]
           active == [status |-> status, progress |-> progress,
                      cancel_flag |-> FALSE]
       IN /\ downloads' = Insert(downloads, id, active)
          /\ runs' = Append(runs, NewRun(id, TRUE, "", progress))
    /\ ret' = Returns("resume", id, Ok(<<>>))
    /\ UNCHANGED <<progress_file, partial_path, output_file, inodes, permits,
                   next_id, at_crash, locks>>

resume_download(id) == ResumeFromRecord(id) \/ ResumeWithoutRecord(id)

\* cancel_download(id): on a registered id the flag, Failed, both files
\* removed; then the session removed, if there is one; all under the
\* registry's write lock. Always Ok.
cancel_download(id) ==
    /\ IF Registered(id)
       THEN /\ progress_file' = Remove(progress_file, id)
            /\ partial_path' = Remove(partial_path, id)
            /\ inodes' = Keep(inodes, partial_path', output_file)
       ELSE UNCHANGED <<progress_file, partial_path, inodes>>
    /\ downloads' = Remove(downloads, id)
    /\ ret' = Returns("cancel", id, Ok(<<>>))
    /\ UNCHANGED <<output_file, permits, runs, next_id, at_crash, locks>>

\* get_download_status(id): a clone of the session's status, or Err.
get_download_status(id) ==
    /\ ret' = Returns("status", id,
                      IF Registered(id) THEN Ok(downloads[id].status)
                      ELSE NotFound)
    /\ UNCHANGED <<downloads, disk, permits, runs, next_id, at_crash, locks>>

\* --------------------------------------------------------- download_file
Run(r) == runs[r]
AtPc(r, pc) == r \in DOMAIN runs /\ runs[r].pc = pc

\* A failure that carries an empty message.
FailNoMessage(r, e) == [runs EXCEPT ![r].pc = "handler", ![r].result = Some("")]

\* download_file returns Err(e): the spawned task's handler runs next.
Fail(r, e) == [runs EXCEPT ![r].pc = "handler", ![r].result = Some(e)]
Goto(r, pc) == [runs EXCEPT ![r].pc = pc]

\* File::create(&partial_path) and set_len(total_size): an existing file is
\* truncated in place, every byte of it becoming 0; a missing one is created.
\* The inode of a created file is numbered by the run creating it.
CreatePartial(r) ==
    /\ AtPc(r, "create")
    /\ LET id == Run(r).id
           ino == IF id \in DOMAIN partial_path THEN partial_path[id] ELSE r
       IN /\ partial_path' = Insert(partial_path, id, ino)
          /\ inodes' = Insert(inodes, ino, Zeros(Run(r).total_size))
    /\ runs' = Goto(r, "chunks")
    /\ UNCHANGED <<downloads, progress_file, output_file, permits, next_id, at_crash, ret, locks>>

\* File::create fails.
CreatePartialFails(r) ==
    /\ AtPc(r, "create")
    /\ runs' = Fail(r, "Create file error")
    /\ UNCHANGED <<downloads, disk, permits, next_id, at_crash, ret, locks>>

\* iter().filter(|c| !c.complete).cloned(): the chunks that are not complete,
\* by position in the registry's list.
Incomplete(chunks) ==
    [k \in {j \in DOMAIN chunks : ~chunks[j].complete} |-> chunks[k]]

\* "Get chunks to download", under the registry's read lock.
GetChunks(r) ==
    /\ AtPc(r, "chunks")
    /\ LET id == Run(r).id
       IN runs' =
            IF Registered(id)
            THEN [runs EXCEPT
                    ![r].pc = "open",
                    ![r].chunks_to_download =
                        Incomplete(downloads[id].progress.chunks)]
            ELSE Fail(r, "Download not found")
    /\ UNCHANGED <<downloads, disk, permits, next_id, at_crash, ret, locks>>

\* The fan-out loop: one tokio::spawn per chunk of chunks_to_download.
SpawnChunks(todo) == [k \in DOMAIN todo |-> NewTask(todo[k])]

\* OpenOptions::new().write(true).open(&partial_path), then the fan-out:
\* the tasks start waiting for the semaphore.
OpenFile(r) ==
    /\ AtPc(r, "open")
    /\ LET id == Run(r).id
       IN runs' =
            IF id \in DOMAIN partial_path
            THEN [runs EXCEPT ![r].pc = "join",
                              ![r].handle = partial_path[id],
                              ![r].tasks = SpawnChunks(Run(r).chunks_to_download),
                              ![r].chunks_to_download = << >>]
            ELSE [Fail(r, "Open file error") EXCEPT ![r].chunks_to_download = << >>]
    /\ UNCHANGED <<downloads, disk, permits, next_id, at_crash, ret, locks>>

\* The fan-in awaits the handles in spawn order and returns the first Err it
\* meets; the handles after it are dropped, their tasks keep running.
FirstUnfinished(r) ==
    {k \in DOMAIN Run(r).tasks :
        /\ Run(r).tasks[k].pc /= "ok"
        /\ \A j \in DOMAIN Run(r).tasks : j < k => Run(r).tasks[j].pc = "ok"}

\* A fan-in that awaits no handle.
FanInUnchecked(r) == TRUE

AllChunksOk(r) == \A k \in DOMAIN Run(r).tasks : Run(r).tasks[k].pc = "ok"

FanInOk(r) ==
    /\ AtPc(r, "join")
    /\ AllChunksOk(r)
    /\ runs' = Goto(r, IF IsSome(Run(r).expected_sha256) THEN "verify" ELSE "rename")
    /\ UNCHANGED <<downloads, disk, permits, next_id, at_crash, ret, locks>>

FanInErr(r) ==
    /\ AtPc(r, "join")
    /\ \E k \in FirstUnfinished(r) :
        /\ Run(r).tasks[k].pc = "err"
        /\ runs' = Fail(r, Unwrap(Run(r).tasks[k].result))
    /\ UNCHANGED <<downloads, disk, permits, next_id, at_crash, ret, locks>>

\* status = Verifying under the write lock, then emit("download-verifying"),
\* whose failure is returned.
SetVerifying(r, emit_ok) ==
    /\ AtPc(r, "verify")
    /\ LET id == Run(r).id
       IN downloads' = IF Registered(id)
                       THEN [downloads EXCEPT ![id].status.status = "Verifying"]
                       ELSE downloads
    /\ runs' = IF emit_ok
               THEN Emit(Goto(r, "hash"), r, "download-verifying")
               ELSE Fail(r, "Emit error")
    /\ UNCHANGED <<disk, permits, next_id, at_crash, ret, locks>>

\* compute_sha256(&partial_path) and the case-insensitive comparison.
VerifyHash(r) ==
    /\ AtPc(r, "hash")
    /\ LET id == Run(r).id
       IN runs' =
            IF id \notin DOMAIN partial_path
            THEN Fail(r, "Open error")
            ELSE LET actual == compute_sha256(inodes[partial_path[id]])
                 IN IF HashMismatch(actual, Unwrap(Run(r).expected_sha256))
                    THEN [Fail(r, "SHA256 mismatch") EXCEPT ![r].actual = Some(actual)]
                    ELSE [Goto(r, "rename") EXCEPT ![r].actual = Some(actual)]
    /\ UNCHANGED <<downloads, disk, permits, next_id, at_crash, ret, locks>>

\* A run that knows no destination.
NoDestination(r) == ""

\* final_path: output_path, or when that is empty the registered session's
\* output_path, or the partial path when the session is gone.
final_path(r) ==
    IF Run(r).output_path = ""
    THEN IF Registered(Run(r).id)
         THEN downloads[Run(r).id].status.output_path
         ELSE "partial"
    ELSE Run(r).output_path

\* "Move to final location": fs::rename unless final_path is empty.
Rename(r) ==
    /\ AtPc(r, "rename")
    /\ LET id == Run(r).id
           to == final_path(r)
       IN IF to = "" \/ (to = "partial" /\ id \in DOMAIN partial_path)
          THEN /\ runs' = Goto(r, "complete")
               /\ UNCHANGED disk
          ELSE IF id \notin DOMAIN partial_path
          THEN /\ runs' = Fail(r, "Rename error")
               /\ UNCHANGED disk
          ELSE /\ runs' = Goto(r, "complete")
               /\ output_file' = Insert(output_file, id, partial_path[id])
               /\ partial_path' = Remove(partial_path, id)
               /\ inodes' = Keep(inodes, partial_path', output_file')
               /\ UNCHANGED progress_file
    /\ UNCHANGED <<downloads, permits, next_id, at_crash, ret, locks>>

\* fs::rename fails though the partial file is there (the destination's
\* directory is missing, or lies on another filesystem).
RenameFails(r) ==
    /\ AtPc(r, "rename")
    /\ final_path(r) \notin {"", "partial"}
    /\ runs' = Fail(r, "Rename error")
    /\ UNCHANGED <<downloads, disk, permits, next_id, at_crash, ret, locks>>

\* "Update status to complete".
SetComplete(r) ==
    /\ AtPc(r, "complete")
    /\ LET id == Run(r).id
       IN downloads' = IF Registered(id)
                       THEN [downloads EXCEPT ![id].status.status = "Complete",
                                              ![id].status.progress = 100]
                       ELSE downloads
    /\ runs' = Goto(r, "cleanup")
    /\ UNCHANGED <<disk, permits, next_id, at_crash, ret, locks>>

\* "Clean up progress file", then emit("download-complete"), whose failure is
\* returned.
Cleanup(r, emit_ok) ==
    /\ AtPc(r, "cleanup")
    /\ progress_file' = Remove(progress_file, Run(r).id)
    /\ runs' = IF emit_ok
               THEN Reap(Emit(Goto(r, "done"), r, "download-complete"))
               ELSE Fail(r, "Emit error")
    /\ UNCHANGED <<downloads, partial_path, output_file, inodes, permits, next_id, at_crash, ret, locks>>

\* The spawned task's `if let Err(e) = result`; the result of its
\* emit("download-error") is dropped by `let _ =`.
ErrorHandler(r, emit_ok) ==
    /\ AtPc(r, "handler")
    /\ LET id == Run(r).id
       IN downloads' = IF Registered(id)
                       THEN [downloads EXCEPT ![id].status.status = "Failed",
                                              ![id].status.error = Run(r).result]
                       ELSE downloads
    /\ runs' = Reap(IF emit_ok
                    THEN Emit(Goto(r, "done"), r, "download-error")
                    ELSE Goto(r, "done"))
    /\ UNCHANGED <<disk, permits, next_id, at_crash, ret, locks>>

\* ------------------------------------------------------------ chunk task
Task(r, k) == runs[r].tasks[k]
TaskAt(r, k, pc) ==
    r \in DOMAIN runs /\ k \in DOMAIN runs[r].tasks /\ runs[r].tasks[k].pc = pc

\* An acquire that never waits, as a limiter without its count would be.
AcquireUnlimited == TRUE

\* Semaphore::acquire resolves when a permit is available; dropping _permit
\* gives it back.
PermitAvailable == permits > 0

\* A permit that is not given back.
PermitLeaked(p) == p

Release(p) == p + 1

\* A task that starts over after an error.
TaskRetry(rs, r, k, e) ==
    [rs EXCEPT ![r].tasks[k] = [NewTask(@.chunk) EXCEPT !.requests = rs[r].tasks[k].requests]]

\* The task returns Err(e): _permit is dropped.
TaskErrIn(rs, r, k, e) ==
    Reap([rs EXCEPT ![r].tasks[k] = Returned(@, "err", Some(e)),
                    ![r].first_error = IF @ = None THEN Some(e) ELSE @])

TaskErr(r, k, e) == TaskErrIn(runs, r, k, e)

\* client.get(&url).header(RANGE, ..).send()
Sent(r, k) == [runs EXCEPT ![r].tasks[k].requests = @ + 1]

\* "Acquire semaphore permit".
Acquire(r, k) ==
    /\ TaskAt(r, k, "wait")
    /\ PermitAvailable
    /\ permits' = permits - 1
    /\ runs' = [runs EXCEPT ![r].tasks[k].pc = "check"]
    /\ UNCHANGED <<downloads, disk, next_id, at_crash, ret, locks>>

\* A check that never sees the flag.
FlagIgnored(id) == FALSE

\* "Check cancel flag": the flag of the session the registry holds for the id
\* now, if it holds one.
CancelRequested(id) == Registered(id) /\ downloads[id].cancel_flag

Responses == {"ok", "HTTP error", "Request error"}

\* The cancel check, then the range request and its status check.
CheckAndRequest(r, k, response) ==
    /\ TaskAt(r, k, "check")
    /\ IF CancelRequested(Run(r).id)
       THEN /\ runs' = TaskErr(r, k, "Cancelled")
            /\ permits' = Release(permits)
       ELSE IF response = "ok"
       THEN /\ runs' = [Sent(r, k) EXCEPT ![r].tasks[k].pc = "stream"]
            /\ UNCHANGED permits
       ELSE /\ runs' = TaskErrIn(Sent(r, k), r, k, response)
            /\ permits' = Release(permits)
    /\ UNCHANGED <<downloads, disk, next_id, at_crash, ret, locks>>

\* Bytes of the chunk's range the server has still to send.
Remaining(r, k) == Task(r, k).chunk.end + 1 - Task(r, k).offset

\* A lock that is granted while another task holds the guard.
LockNotExclusive(r) == TRUE

\* file.lock().await resolves when no task holds the guard.
FileLockFree(r) == Run(r).file_lock = 0

\* stream.next() yields a segment of n bytes; the task takes the file's
\* mutex and seeks to its offset.
SeekSegment(r, k, n) ==
    /\ TaskAt(r, k, "stream")
    /\ n \in 1..Remaining(r, k)
    /\ FileLockFree(r)
    /\ runs' = [runs EXCEPT ![r].file_lock = k,
                            ![r].cursor = Task(r, k).offset,
                            ![r].tasks[k].bytes = n,
                            ![r].tasks[k].pc = "sought"]
    /\ UNCHANGED <<downloads, disk, permits, next_id, at_crash, ret, locks>>

\* stream.next() yields an error.
StreamError(r, k) ==
    /\ TaskAt(r, k, "stream")
    /\ runs' = TaskErr(r, k, "Stream error")
    /\ permits' = Release(permits)
    /\ UNCHANGED <<downloads, disk, next_id, at_crash, ret, locks>>

\* write_all(&bytes) at the file's seek position, the guard dropped after
\* it; then offset and chunk_downloaded advance.
WriteSegment(r, k) ==
    /\ TaskAt(r, k, "sought")
    /\ LET ino == Run(r).handle
           n == Task(r, k).bytes
       IN /\ inodes' = IF ino \in DOMAIN inodes
                       THEN [inodes EXCEPT ![ino] =
                               WriteAt(@, Run(r).cursor,
                                       SourceBytes(Task(r, k).offset, n))]
                       ELSE inodes
          /\ runs' = [runs EXCEPT
                        ![r].cursor = @ + n,
                        ![r].file_lock = IF @ = k THEN 0 ELSE @,
                        ![r].tasks[k].offset = @ + n,
                        ![r].tasks[k].chunk_downloaded = @ + n,
                        ![r].tasks[k].pc = "update"]
    /\ UNCHANGED <<downloads, progress_file, partial_path, output_file, permits,
                   next_id, at_crash, ret, locks>>

\* seek or write_all returns an error: the `?` drops the file's guard and
\* the permit.
WriteError(r, k) ==
    /\ TaskAt(r, k, "sought")
    /\ runs' = TaskErrIn([runs EXCEPT ![r].file_lock = IF @ = k THEN 0 ELSE @],
                         r, k, "Write error")
    /\ permits' = Release(permits)
    /\ UNCHANGED <<downloads, disk, next_id, at_crash, ret, locks>>

\* status.progress as a whole percentage.
Percent(downloaded, total_size) == (downloaded * 100) \div total_size

\* "Update progress", under the registry's write lock.
UpdateProgress(r, k) ==
    /\ TaskAt(r, k, "update")
    /\ LET id == Run(r).id
           n == Task(r, k).bytes
       IN downloads' =
            IF Registered(id)
            THEN [downloads EXCEPT
                    ![id].status.downloaded = @ + n,
                    ![id].status.progress =
                        Percent(downloads[id].status.downloaded + n,
                                downloads[id].status.total_size)]
            ELSE downloads
    /\ runs' = [runs EXCEPT ![r].tasks[k].bytes = 0, ![r].tasks[k].pc = "stream"]
    /\ UNCHANGED <<disk, permits, next_id, at_crash, ret, locks>>

\* chunks.iter_mut().find(|c| c.index == chunk.index)
FindChunk(chunks, index) ==
    {k \in DOMAIN chunks :
        /\ chunks[k].index = index
        /\ \A j \in DOMAIN chunks : j < k => chunks[j].index /= index}

\* A marking that restarts the session's byte count from the chunk's own.
MarkCompleteRecount(active, chunk, chunk_downloaded) ==
    [active EXCEPT !.status.downloaded = chunk_downloaded,
                   !.status.chunks_completed = @ + 1]

\* "Mark chunk complete", under the registry's write lock.
MarkComplete(active, chunk, chunk_downloaded) ==
    LET found == FindChunk(active.progress.chunks, chunk.index)
        marked == [k \in DOMAIN active.progress.chunks |->
                     IF k \in found
                     THEN [active.progress.chunks[k] EXCEPT
                             !.complete = TRUE,
                             !.downloaded = chunk_downloaded]
                     ELSE active.progress.chunks[k]]
    IN [active EXCEPT !.progress.chunks = marked,
                      !.status.chunks_completed = @ + 1]

\* The stream is over: the chunk is marked and the task returns Ok(()).
FinishChunk(r, k) ==
    /\ LET id == Run(r).id
       IN downloads' =
            IF Registered(id)
            THEN [downloads EXCEPT ![id] =
                    MarkComplete(@, Task(r, k).chunk, Task(r, k).chunk_downloaded)]
            ELSE downloads
    /\ runs' = Reap([runs EXCEPT ![r].tasks[k] = Returned(@, "ok", None)])
    /\ permits' = Release(permits)
    /\ UNCHANGED <<disk, next_id, at_crash, ret, locks>>

\* stream.next() yields None after the whole range arrived.
StreamEnd(r, k) ==
    /\ TaskAt(r, k, "stream")
    /\ Remaining(r, k) = 0
    /\ FinishChunk(r, k)

\* stream.next() yields None before the whole range arrived: the server
\* answered the range request with a shorter body.
StreamEndShort(r, k) ==
    /\ TaskAt(r, k, "stream")
    /\ Remaining(r, k) > 0
    /\ FinishChunk(r, k)

\* ---------------------------------------------------------- specification
RunStep(r) ==
    \/ CreatePartial(r)
    \/ CreatePartialFails(r)
    \/ GetChunks(r)
    \/ OpenFile(r)
    \/ FanInOk(r)
    \/ FanInErr(r)
    \/ \E emit_ok \in BOOLEAN : SetVerifying(r, emit_ok)
    \/ VerifyHash(r)
    \/ Rename(r)
    \/ RenameFails(r)
    \/ SetComplete(r)
    \/ \E emit_ok \in BOOLEAN : Cleanup(r, emit_ok)
    \/ ErrorHandler(r, TRUE)

TaskStep(r, k) ==
    \/ Acquire(r, k)
    \/ \E response \in Responses : CheckAndRequest(r, k, response)
    \/ \E n \in 1..CHUNK_SIZE : SeekSegment(r, k, n)
    \/ StreamError(r, k)
    \/ WriteSegment(r, k)
    \/ WriteError(r, k)
    \/ UpdateProgress(r, k)
    \/ StreamEnd(r, k)
    \/ StreamEndShort(r, k)

\* Every download_file task has returned and every chunk task with it.
Quiescent == \A r \in DOMAIN runs : Finished(runs[r])

Ids == 1..next_id

\* One download: started once, paused and cancelled at any time, resumed
\* once the tasks of the run before have returned.
StartOne ==
    /\ next_id = 0
    /\ \E total_size \in Sizes :
         \E expected_sha256 \in ExpectedHashes(total_size), emit_ok \in BOOLEAN :
            start_chunked_download(total_size, expected_sha256, "out", emit_ok)

ResumeStopped ==
    /\ Quiescent
    /\ Len(runs) < MaxRuns
    /\ \E id \in Ids : resume_download(id)

Next ==
    \/ StartOne
    \/ pause_download(1)
    \/ cancel_download(1)
    \/ ResumeStopped
    \/ \E r \in 1..MaxRuns : RunStep(r)
    \/ \E r \in 1..MaxRuns, k \in 1..num_chunks(MaxSize) : TaskStep(r, k)

Spec == Init /\ [][Next]_vars

\* The same program with listeners that may miss the handler's event: the
\* handler drops the result of its emit, so nothing but the history of
\* delivered events tells the two outcomes apart.
ErrorUnheard(r) == ErrorHandler(r, FALSE)

NextEvents ==
    \/ Next
    \/ \E r \in 1..MaxRuns : ErrorUnheard(r)

SpecEvents == Init /\ [][NextEvents]_vars

\* One download of a single-chunk resource whose resume may come at any
\* time, also while the tasks of the run before are alive.
StartRace ==
    /\ next_id = 0
    /\ \E total_size \in 1..CHUNK_SIZE :
         \E expected_sha256 \in ExpectedHashes(total_size), emit_ok \in BOOLEAN :
            start_chunked_download(total_size, expected_sha256, "out", emit_ok)

ResumeAny ==
    /\ Len(runs) < MaxRuns
    /\ resume_download(1)

NextRace ==
    \/ StartRace
    \/ pause_download(1)
    \/ cancel_download(1)
    \/ ResumeAny
    \/ \E r \in 1..MaxRuns : RunStep(r)
    \/ \E r \in 1..MaxRuns : TaskStep(r, 1)

SpecRace == Init /\ [][NextRace]_vars

\* Two downloads of one-byte resources at once, sharing a semaphore of K
\* slots: the limiter's K scaled so that two chunk tasks outnumber the slots.
K == 1
TwoDownloads == {1, 2}

InitMany == Boot(K)

StartMany ==
    /\ next_id + 1 \in TwoDownloads
    /\ \E expected_sha256 \in ExpectedHashes(1) :
         start_chunked_download(1, expected_sha256, "out", TRUE)

StartManySaveFails ==
    /\ next_id + 1 \in TwoDownloads
    /\ StartSaveFails

NextMany ==
    \/ StartMany
    \/ StartManySaveFails
    \/ \E id \in TwoDownloads : pause_download(id)
    \/ \E id \in TwoDownloads : cancel_download(id)
    \/ \E r \in TwoDownloads : RunStep(r)
    \/ \E r \in TwoDownloads : TaskStep(r, 1)

SpecMany == InitMany /\ [][NextMany]_vars

\* The process is killed and started again: the registry, the semaphore and
\* every task are gone, the download directory stays as it is. at_crash
\* records which chunks the registry held complete.
Crash ==
    /\ downloads /= << >>
    /\ at_crash = << >>
    /\ at_crash' = [id \in DOMAIN downloads |->
                      {k \in DOMAIN downloads[id].progress.chunks :
                          downloads[id].progress.chunks[k].complete}]
    /\ downloads' = << >>
    /\ permits' = MAX_PARALLEL_DOWNLOADS
    /\ runs' = [r \in DOMAIN runs |->
                  [NewRun(runs[r].id, runs[r].resumed, runs[r].output_path,
                          runs[r].progress) EXCEPT !.pc = "killed"]]
    /\ UNCHANGED <<disk, next_id, ret, locks>>

\* resume_download in the restarted process.
ResumeCrashed ==
    /\ 1 \in DOMAIN at_crash
    /\ Quiescent
    /\ Len(runs) < MaxRuns
    /\ resume_download(1)

\* One download that is never paused; the process may be killed once.
NextCrash ==
    \/ StartOne
    \/ Crash
    \/ ResumeCrashed
    \/ \E r \in 1..MaxRuns : RunStep(r)
    \/ \E r \in 1..MaxRuns, k \in 1..num_chunks(MaxSize) : TaskStep(r, k)

SpecCrash == Init /\ [][NextCrash]_vars

\* One download against a range-capable server that answers every request in
\* full, with no pause, cancel or resume and no failing file operation or
\* event emission. The tokio runtime polls every task that can proceed.
StartLive ==
    /\ next_id = 0
    /\ \E total_size \in Sizes :
         \E expected_sha256 \in {None, Some(compute_sha256(Source(total_size)))} :
            start_chunked_download(total_size, expected_sha256, "out", TRUE)

RunStepLive(r) ==
    \/ CreatePartial(r)
    \/ GetChunks(r)
    \/ OpenFile(r)
    \/ FanInOk(r)
    \/ SetVerifying(r, TRUE)
    \/ VerifyHash(r)
    \/ Rename(r)
    \/ SetComplete(r)
    \/ Cleanup(r, TRUE)

TaskStepLive(r, k) ==
    \/ Acquire(r, k)
    \/ CheckAndRequest(r, k, "ok")
    \/ \E n \in 1..CHUNK_SIZE : SeekSegment(r, k, n)
    \/ WriteSegment(r, k)
    \/ UpdateProgress(r, k)
    \/ StreamEnd(r, k)

NextLive ==
    \/ StartLive
    \/ RunStepLive(1)
    \/ \E k \in 1..num_chunks(MaxSize) : TaskStepLive(1, k)

SpecLive == Init /\ [][NextLive]_vars /\ WF_vars(NextLive)

\* Two downloads of one-byte resources over K permits, with any expected
\* hash; every request and file operation returns, with or without an error;
\* no pause, cancel or resume. The runtime polls every task that can run;
\* the semaphore queues its waiters, so a waiting task is served once
\* permits keep coming back.
StartFair ==
    /\ next_id + 1 \in TwoDownloads
    /\ \E expected_sha256 \in ExpectedHashes(1) :
         start_chunked_download(1, expected_sha256, "out", TRUE)

NextFair ==
    \/ StartFair
    \/ \E r \in TwoDownloads : RunStep(r)
    \/ \E r \in TwoDownloads : TaskStep(r, 1)

SpecFair ==
    /\ InitMany
    /\ [][NextFair]_vars
    /\ \A r \in TwoDownloads :
          /\ WF_vars(RunStep(r))
          /\ WF_vars(TaskStep(r, 1))
          /\ SF_vars(Acquire(r, 1))

\* One download of a single-chunk resource and a caller whose view of every
\* command's result is recorded, for MaxCalls calls; id 2 is never handed out.
MaxCalls == 3
ApiIds == {1, 2}

\* The download directory at construction: empty, or holding a progress
\* file under id 2 that does not parse.
InitApi ==
    /\ downloads = << >>
    /\ progress_file \in {<< >>, [id \in {2} |-> Unparseable]}
    /\ partial_path = << >>
    /\ output_file = << >>
    /\ inodes = << >>
    /\ permits = MAX_PARALLEL_DOWNLOADS
    /\ runs = << >>
    /\ next_id = 0
    /\ at_crash = << >>
    /\ ret = NoCall
    /\ locks = << >>

CanCall == ret.calls < MaxCalls

StartApi ==
    /\ CanCall
    /\ next_id = 0
    /\ \E total_size \in 1..CHUNK_SIZE, emit_ok \in BOOLEAN :
         \E expected_sha256 \in ExpectedHashes(total_size) :
           start_chunked_download(total_size, expected_sha256, "out", emit_ok)

PauseApi(id) == CanCall /\ pause_download(id)
CancelApi(id) == CanCall /\ cancel_download(id)
StatusApi(id) == CanCall /\ get_download_status(id)
ResumeApi(id) ==
    /\ CanCall
    /\ Quiescent
    /\ Len(runs) < MaxRuns
    /\ resume_download(id)

NextApi ==
    \/ StartApi
    \/ \E id \in ApiIds : PauseApi(id)
    \/ \E id \in ApiIds : CancelApi(id)
    \/ \E id \in ApiIds : StatusApi(id)
    \/ \E id \in ApiIds : ResumeApi(id)
    \/ \E r \in 1..MaxRuns : RunStep(r)
    \/ \E r \in 1..MaxRuns : TaskStep(r, 1)

SpecApi == InitApi /\ [][NextApi]_vars

\* ------------------------------------------------------------- the locks
\* The guards of the chunk tasks and of the commands, each process a program
\* of acquisitions and releases in the order of the source's guard scopes.
\* Three chunk tasks share MAX_PARALLEL_DOWNLOADS permits.
ChunkTasks == {"chunk 0", "chunk 1", "chunk 2"}
Procs == ChunkTasks \cup {"pause", "cancel", "status"}

NoLock == << >>
Take(lock, mode, next) == [acq |-> <<lock, mode>>, rel |-> {}, next |-> next]
Drop(guards, next) == [acq |-> NoLock, rel |-> guards, next |-> next]
Branch(next) == [acq |-> NoLock, rel |-> {}, next |-> next]

\* A chunk task that updates the registry inside the file's guard.
ChunkTaskNested(flag) ==
    [spawned |-> Take("semaphore", "permit", {"check"}),
     check |-> Take("registry", "read", {"lookup"}),
     lookup |-> Branch({"flag", "checked"}),
     flag |-> Take("cancel_flag", "read", {"flagread"}),
     flagread |-> Drop({"cancel_flag"}, IF flag THEN {"cancelled"} ELSE {"checked"}),
     cancelled |-> Drop({"registry", "semaphore"}, {"done"}),
     checked |-> Drop({"registry"}, {"stream"}),
     stream |-> Branch({"segment", "mark", "failed"}),
     failed |-> Drop({"semaphore"}, {"done"}),
     segment |-> Take("file", "mutex", {"write"}),
     write |-> Branch({"update"}),
     update |-> Take("registry", "write", {"updated"}),
     updated |-> Drop({"registry", "file"}, {"stream"}),
     mark |-> Take("registry", "write", {"marked"}),
     marked |-> Drop({"registry", "semaphore"}, {"done"}),
     done |-> Branch({})]

\* The chunk task: the permit (l.464); the registry's read guard and, when
\* the session is found, the flag's read guard inside it (l.467-474); per
\* segment the file's guard around seek and write (l.497-505), then the
\* registry's write guard around the update (l.511-522); the registry's write
\* guard around the marking (l.526-540). A return drops what is held.
ChunkTask(flag) ==
    [spawned |-> Take("semaphore", "permit", {"check"}),
     check |-> Take("registry", "read", {"lookup"}),
     lookup |-> Branch({"flag", "checked"}),
     flag |-> Take("cancel_flag", "read", {"flagread"}),
     flagread |-> Drop({"cancel_flag"}, IF flag THEN {"cancelled"} ELSE {"checked"}),
     cancelled |-> Drop({"registry", "semaphore"}, {"done"}),
     checked |-> Drop({"registry"}, {"stream"}),
     stream |-> Branch({"segment", "mark", "failed"}),
     failed |-> Drop({"semaphore"}, {"done"}),
     segment |-> Take("file", "mutex", {"write"}),
     write |-> Drop({"file"}, {"update", "failed"}),
     update |-> Take("registry", "write", {"updated"}),
     updated |-> Drop({"registry"}, {"stream"}),
     mark |-> Take("registry", "write", {"marked"}),
     marked |-> Drop({"registry", "semaphore"}, {"done"}),
     done |-> Branch({})]

\* A setter that reaches the flag without the registry's guard.
FlagSetterUnguarded ==
    [spawned |-> Branch({"lookup"}),
     lookup |-> Branch({"flag", "return"}),
     flag |-> Take("cancel_flag", "write", {"flagset"}),
     flagset |-> Drop({"cancel_flag"}, {"setstate"}),
     setstate |-> Branch({"return"}),
     return |-> Branch({"done"}),
     done |-> Branch({})]

\* pause_download and cancel_download: the registry's write guard for the
\* whole call (l.281, l.368); inside it, when the session is found, the
\* flag's write guard for the statement that sets the flag (l.283, l.370),
\* then the assignment of the session's state (l.284, l.371).
FlagSetter ==
    [spawned |-> Take("registry", "write", {"lookup"}),
     lookup |-> Branch({"flag", "return"}),
     flag |-> Take("cancel_flag", "write", {"flagset"}),
     flagset |-> Drop({"cancel_flag"}, {"setstate"}),
     setstate |-> Branch({"return"}),
     return |-> Drop({"registry"}, {"done"}),
     done |-> Branch({})]

\* get_download_status: the registry's read guard for the whole call.
StatusReader ==
    [spawned |-> Take("registry", "read", {"return"}),
     return |-> Drop({"registry"}, {"done"}),
     done |-> Branch({})]

Code(p) ==
    IF p \in ChunkTasks THEN ChunkTask(locks.cancel_flag)
    ELSE IF p = "status" THEN StatusReader
    ELSE FlagSetter

Ins(p) == Code(p)[locks.pc[p]]
Wants(p) == Ins(p).acq
HoldsLock(p, lock) == \E h \in locks.held[p] : h[1] = lock

\* A guard can be granted: a permit while one is left, a mutex or a write
\* guard when nobody holds the lock, a read guard when no writer holds it.
Grantable(want) ==
    IF want[2] = "permit"
    THEN Cardinality({q \in Procs : HoldsLock(q, want[1])}) < MAX_PARALLEL_DOWNLOADS
    ELSE IF want[2] = "read"
    THEN \A q \in Procs : <<want[1], "write">> \notin locks.held[q]
    ELSE \A q \in Procs : ~HoldsLock(q, want[1])

\* tokio's RwLock is fair: a read guard also waits behind a queued writer.
GrantableFair(want) ==
    /\ Grantable(want)
    /\ want[2] = "read" => \A q \in Procs : Wants(q) # <<want[1], "write">>

InitLocks ==
    /\ Fresh(MAX_PARALLEL_DOWNLOADS)
    /\ ret = Unobserved
    /\ locks = [pc |-> [p \in Procs |-> "spawned"],
                held |-> [p \in Procs |-> {}],
                cancel_flag |-> FALSE,
                state_set |-> FALSE]

AcquireLock(p) ==
    /\ Wants(p) # NoLock
    /\ Grantable(Wants(p))
    /\ \E next \in Ins(p).next :
         locks' = [pc |-> [locks.pc EXCEPT ![p] = next],
                   held |-> [locks.held EXCEPT ![p] = @ \cup {Wants(p)}],
                   cancel_flag |-> locks.cancel_flag \/ Wants(p) = <<"cancel_flag", "write">>,
                   state_set |-> locks.state_set]
    /\ UNCHANGED <<downloads, disk, permits, runs, next_id, at_crash, ret>>

ReleaseLock(p) ==
    /\ Ins(p).rel # {}
    /\ \E next \in Ins(p).next :
         locks' = [locks EXCEPT
                     !.pc[p] = next,
                     !.held[p] = {h \in @ : h[1] \notin Ins(p).rel}]
    /\ UNCHANGED <<downloads, disk, permits, runs, next_id, at_crash, ret>>

Proceed(p) ==
    /\ Wants(p) = NoLock
    /\ Ins(p).rel = {}
    /\ \E next \in Ins(p).next :
         locks' = [locks EXCEPT !.pc[p] = next,
                                !.state_set = @ \/ locks.pc[p] = "setstate"]
    /\ UNCHANGED <<downloads, disk, permits, runs, next_id, at_crash, ret>>

NextLocks ==
    \/ \E p \in Procs : AcquireLock(p)
    \/ \E p \in Procs : ReleaseLock(p)
    \/ \E p \in Procs : Proceed(p)

SpecLocks == InitLocks /\ [][NextLocks]_vars

\* ---------------------------------------------------------------- claims
\* Chunk tasks between acquiring their permit and returning, over every run
\* of every download.
Holding ==
    {rk \in {<<r, k>> : r \in DOMAIN runs, k \in 1..num_chunks(MaxSize)} :
        /\ rk[2] \in DOMAIN runs[rk[1]].tasks
        /\ runs[rk[1]].tasks[rk[2]].pc \in {"check", "stream", "sought", "update"}}

Waiting ==
    {rk \in {<<r, k>> : r \in DOMAIN runs, k \in 1..num_chunks(MaxSize)} :
        /\ rk[2] \in DOMAIN runs[rk[1]].tasks
        /\ runs[rk[1]].tasks[rk[2]].pc = "wait"}

\* C1: with the limiter set to K, in every reachable state at most K chunk
\* tasks, counted over all downloads of the process, are between acquiring
\* their permit and finishing their fetch; the permits not handed out and the
\* tasks holding one always add up to K.
C1_ConcurrencyCap ==
    /\ Cardinality(Holding) <= K
    /\ permits + Cardinality(Holding) = K

\* K tasks hold a permit while a chunk task of another download waits for one.
C1_Witness ==
    /\ Cardinality(Holding) = K
    /\ \E h \in Holding, w \in Waiting : runs[h[1]].id /= runs[w[1]].id

\* C2: for every interleaving of the chunk tasks of one download, a task
\* that has sought holds the file's guard alone and the handle's position is
\* chunk.start plus the bytes the task has already written, until its own
\* write; so every byte of the file is a hole or the source's byte of that
\* offset.
C2_SeekWriteAtomic ==
    /\ \A r \in DOMAIN runs : \A k \in DOMAIN runs[r].tasks :
          runs[r].tasks[k].pc = "sought" =>
             /\ runs[r].file_lock = k
             /\ runs[r].cursor =
                  runs[r].tasks[k].chunk.start + runs[r].tasks[k].chunk_downloaded
             /\ \A j \in DOMAIN runs[r].tasks :
                   j /= k => runs[r].tasks[j].pc /= "sought"
    /\ \A ino \in DOMAIN inodes : \A q \in DOMAIN inodes[ino] :
          inodes[ino][q] \in {0, SourceByte(q - 1)}

\* A task has sought for its second segment while another task of the same
\* run has a segment to write.
C2_Witness ==
    \E r \in DOMAIN runs : \E k, j \in DOMAIN runs[r].tasks :
        /\ j /= k
        /\ runs[r].tasks[k].pc = "sought"
        /\ runs[r].tasks[k].chunk_downloaded > 0
        /\ runs[r].tasks[j].pc = "stream"
        /\ runs[r].tasks[j].chunk_downloaded = 0

\* A run writes the partial file while one of its chunk tasks has the range
\* response open on the run's handle; it truncates it when it is about to
\* execute File::create.
Writes(r) ==
    /\ runs[r].handle /= 0
    /\ \E k \in DOMAIN runs[r].tasks :
          runs[r].tasks[k].pc \in {"stream", "sought", "update"}

Truncates(r) == runs[r].pc = "create"

\* C3: for any sequence of start, pause, resume and cancel calls, at no time
\* do two runs of one download write or truncate the same partial file
\* concurrently; a resume issued while chunk tasks of an earlier run are alive
\* creates no second writer.
C3_SingleWriter ==
    \A r1, r2 \in DOMAIN runs :
        (r1 /= r2 /\ runs[r1].id = runs[r2].id /\ Writes(r1)) =>
            ~(Writes(r2) \/ Truncates(r2))

\* C4: after pause succeeded, no interleaving of the chunk tasks that observe
\* the cancel flag and of the fan-in leaves the session Failed on account of
\* a chunk task's Cancelled exit.
C4_PauseNotFailed ==
    \A id \in DOMAIN downloads :
        ~(/\ downloads[id].status.status = "Failed"
          /\ downloads[id].status.error = Some("Cancelled"))

\* The bytes of `chunk` in a file's content.
ChunkBytes(content, chunk) ==
    [q \in {x \in DOMAIN content : x > chunk.start /\ x <= chunk.end + 1} |->
        content[q]]

\* C5: no step taken once a download was resumed changes, in the partial
\* file, the bytes of a chunk that the record loaded by the resume holds
\* complete.
C5_CompleteChunksUntouched ==
    [][\A r \in DOMAIN runs :
          (/\ runs[r].resumed
           /\ runs[r].id \in DOMAIN partial_path
           /\ runs[r].id \in DOMAIN partial_path') =>
             \A k \in DOMAIN runs[r].progress.chunks :
                runs[r].progress.chunks[k].complete =>
                   ChunkBytes(inodes'[partial_path'[runs[r].id]],
                              runs[r].progress.chunks[k])
                   = ChunkBytes(inodes[partial_path[runs[r].id]],
                                runs[r].progress.chunks[k])]_vars

\* C6: after the process was killed with N of M chunks complete and pause
\* never called, the resumed run fetches none of the N chunks that were
\* complete, only the remaining M - N.
C6_CrashResumeSkipsComplete ==
    \A r \in DOMAIN runs :
        (runs[r].resumed /\ runs[r].id \in DOMAIN at_crash) =>
            DOMAIN runs[r].tasks \cap at_crash[runs[r].id] = {}

\* C7: a resumed run spawns a chunk task for exactly the chunks that the
\* record loaded by resume_download does not hold complete.
C7_ResumeSpawnsIncomplete ==
    \A r \in DOMAIN runs :
        (runs[r].resumed /\ runs[r].pc = "join") =>
            DOMAIN runs[r].tasks =
                {k \in DOMAIN runs[r].progress.chunks :
                    ~runs[r].progress.chunks[k].complete}

\* C8: when all chunks succeeded and the expected hash differs, whatever the
\* letters' case, from the computed digest, the handler leaves the session
\* Failed with the mismatch error and the partial file in place, and creates
\* no destination file; a download given a hash that no content has never
\* creates its destination file.
C8_HashEnforced ==
    [][/\ \A r \in DOMAIN runs :
            (/\ runs[r].pc = "handler"
             /\ runs[r].result = Some("SHA256 mismatch")
             /\ runs'[r].pc = "done") =>
                /\ output_file' = output_file
                /\ runs[r].id \in DOMAIN downloads' =>
                     /\ downloads'[runs[r].id].status.status = "Failed"
                     /\ downloads'[runs[r].id].status.error = Some("SHA256 mismatch")
                     /\ runs[r].id \in DOMAIN partial_path'
       /\ \A r \in DOMAIN runs :
            runs[r].expected_sha256 = Some(WrongHash) =>
                runs[r].id \notin DOMAIN output_file']_vars

\* Every chunk of a download with a wrong expected hash succeeded; the session
\* is Failed with the mismatch error, the partial file exists and the
\* destination does not.
C8_Witness ==
    /\ Registered(1)
    /\ downloads[1].progress.expected_sha256 = Some(WrongHash)
    /\ downloads[1].progress.total_size = MaxSize
    /\ \A k \in DOMAIN downloads[1].progress.chunks :
          downloads[1].progress.chunks[k].complete
    /\ downloads[1].status.status = "Failed"
    /\ downloads[1].status.error = Some("SHA256 mismatch")
    /\ 1 \in DOMAIN partial_path
    /\ 1 \notin DOMAIN output_file

\* The session is Complete with every chunk complete and the whole file at
\* the destination.
Completed(id) ==
    /\ Registered(id)
    /\ downloads[id].status.status = "Complete"
    /\ downloads[id].status.progress = 100
    /\ \A k \in DOMAIN downloads[id].progress.chunks :
          downloads[id].progress.chunks[k].complete
    /\ id \in DOMAIN output_file
    /\ Len(inodes[output_file[id]]) = downloads[id].status.total_size

\* C9: a download started with no expected hash against a range-capable
\* server, with no chunk failure and no pause or cancel, eventually is
\* Complete with progress 100, every chunk complete and the file at the
\* destination path with length total_size.
C9_EventuallyComplete ==
    (Registered(1) /\ downloads[1].status.sha256 = None) ~> Completed(1)

\* A hashless download of the largest resource is Complete, the source's
\* bytes at the destination.
C9_Witness ==
    /\ Completed(1)
    /\ downloads[1].status.sha256 = None
    /\ inodes[output_file[1]] = Source(MaxSize)

\* C10: the step that creates the destination file, and the step that sets
\* the session Complete, are steps of a run all of whose chunk tasks returned
\* Ok and which, when an expected hash was supplied, computed a digest that
\* matches it; when the destination is created the registry holds every
\* chunk complete.
C10_PromotedAfterVerification ==
    [][\A id \in 1..next_id :
          (\/ id \notin DOMAIN output_file /\ id \in DOMAIN output_file'
           \/ /\ id \in DOMAIN downloads'
              /\ downloads'[id].status.status = "Complete"
              /\ ~(Registered(id) /\ downloads[id].status.status = "Complete")) =>
             \E r \in DOMAIN runs :
                /\ runs[r].id = id
                /\ runs[r].pc \in {"rename", "complete"}
                /\ runs'[r].pc = "complete" \/ runs'[r].pc = "cleanup"
                /\ \A k \in DOMAIN runs[r].tasks :
                      runs[r].tasks[k].pc = "ok" /\ runs[r].tasks[k].result = None
                /\ IsSome(runs[r].expected_sha256) =>
                      /\ IsSome(runs[r].actual)
                      /\ to_lowercase(Unwrap(runs[r].actual))
                           = to_lowercase(Unwrap(runs[r].expected_sha256))
                /\ (id \in DOMAIN output_file' /\ Registered(id)) =>
                      \A k \in DOMAIN downloads[id].progress.chunks :
                         downloads[id].progress.chunks[k].complete]_vars

\* A download with an expected hash is Complete at its destination, the run
\* having verified the digest after its chunk tasks returned.
C10_Witness ==
    /\ Registered(1)
    /\ downloads[1].status.status = "Complete"
    /\ 1 \in DOMAIN output_file
    /\ \E r \in DOMAIN runs :
          /\ runs[r].pc = "cleanup"
          /\ IsSome(runs[r].expected_sha256)
          /\ IsSome(runs[r].actual)
          /\ DOMAIN runs[r].tasks = 1..num_chunks(MaxSize)

\* cancel_download was called for id: the registry holds no session of an id
\* that was handed out (only cancel_download removes one).
Cancelled(id) == id \in 1..next_id /\ ~Registered(id)

\* C11: after cancel_download(id), no chunk task of that download that has
\* not yet issued its range request issues it: every such task observes the
\* cancellation instead.
C11_CancelObserved ==
    [][\A r \in DOMAIN runs : \A k \in DOMAIN runs[r].tasks :
          (/\ Cancelled(runs[r].id)
           /\ runs[r].tasks[k].pc \in {"wait", "check"}) =>
              (k \in DOMAIN runs'[r].tasks =>
                 runs'[r].tasks[k].pc \notin {"stream", "sought", "update", "ok"})]_vars

\* C12: after cancel_download(id) the session is absent from the registry,
\* and once every task of that download has returned neither the partial
\* file nor the progress record of id exists, whenever the cancel came.
C12_CancelRemovesFiles ==
    \A id \in 1..next_id :
        (/\ Cancelled(id)
         /\ \A r \in DOMAIN runs : runs[r].id = id => Finished(runs[r])) =>
            /\ id \notin DOMAIN partial_path
            /\ id \notin DOMAIN progress_file

\* C13: Failed and Complete are terminal: once the session of an id is Failed
\* or Complete, no step of pause, resume, cancel or of a task makes the
\* registry report another lifecycle state for that id.
C13_TerminalStates ==
    [][\A id \in DOMAIN downloads :
          (/\ downloads[id].status.status \in {"Failed", "Complete"}
           /\ id \in DOMAIN downloads') =>
              downloads'[id].status.status = downloads[id].status.status]_vars

\* C14: after pause_download(id) succeeded the session stays Paused until
\* resume_download(id) (or cancel_download(id)) is called: no task of the
\* paused run moves it on to Verifying or Complete nor renames the partial
\* file to the destination.
C14_StaysPaused ==
    [][\A id \in DOMAIN downloads :
          (/\ downloads[id].status.status = "Paused"
           /\ id \in DOMAIN downloads'
           /\ Len(runs') = Len(runs)) =>
              /\ downloads'[id].status.status \notin {"Verifying", "Complete"}
              /\ id \notin DOMAIN output_file' \ DOMAIN output_file]_vars

\* The addition of the chunk count overflows in a build with overflow
\* checks: the command panics after the id was generated, before anything
\* is saved or registered.
StartPanics(total_size) ==
    /\ next_id + 1 \in TwoDownloads
    /\ Overflows(total_size)
    /\ next_id' = next_id + 1
    /\ UNCHANGED <<downloads, disk, permits, runs, at_crash, ret, locks>>

\* Just start calls, for a resource of any size a Content-Length header can
\* state, the download-started event not delivered: each registers and saves
\* its planned chunks.
StartPlan ==
    /\ next_id + 1 \in TwoDownloads
    /\ \E total_size \in 1..U64_MAX :
         start_chunked_download(total_size, None, "out", FALSE)

NextPlan ==
    \/ StartPlan
    \/ \E total_size \in 1..U64_MAX : StartPanics(total_size)

SpecPlan == Init /\ [][NextPlan]_vars

\* end - start + 1 of a planned range.
ChunkLen(c) == c.end - c.start + 1

\* C15: for every total_size > 0 the planned ranges are sorted by index,
\* contiguous from offset 0, non-overlapping, end at total_size - 1, number
\* ceil(total_size / CHUNK_SIZE), and their lengths sum to total_size, every
\* range but the last of length CHUNK_SIZE and the last of length at most
\* CHUNK_SIZE.
C15_PlanCoversFile ==
    \A id \in DOMAIN downloads :
        LET chunks == downloads[id].progress.chunks
            total_size == downloads[id].progress.total_size
            n == Len(chunks)
        IN /\ n * CHUNK_SIZE >= total_size
           /\ (n - 1) * CHUNK_SIZE < total_size
           /\ n = downloads[id].status.chunks_total
           /\ chunks[1].start = 0
           /\ chunks[n].end = total_size - 1
           /\ \A k \in 1..n :
                /\ chunks[k].index = k - 1
                /\ chunks[k].start <= chunks[k].end
                /\ k < n => /\ chunks[k + 1].start = chunks[k].end + 1
                            /\ ChunkLen(chunks[k]) = CHUNK_SIZE
                /\ ChunkLen(chunks[k]) <= CHUNK_SIZE
           /\ Sum([k \in 1..n |-> ChunkLen(chunks[k])]) = total_size
           /\ progress_file[id].chunks = chunks

\* C16: a start on a resource whose probed size is 0 fails: no session is
\* registered with total_size 0 and an empty chunk list.
C16_ZeroSizeRejected ==
    \A id \in DOMAIN downloads :
        /\ downloads[id].status.total_size > 0
        /\ downloads[id].progress.chunks /= << >>

\* A chunk task that has issued its range request.
Requested(task) == task.pc \in {"stream", "sought", "update", "ok"}

\* C17: the step of start_chunked_download that spawns the download task has
\* saved the initial record, every chunk incomplete; a start whose save fails
\* registers and spawns nothing, so that no chunk of it is ever fetched; and
\* while a chunk task of a registered download has its request out, the
\* record is on disk.
C17_SavedBeforeFetch ==
    [][/\ \A r \in DOMAIN runs' \ DOMAIN runs :
            ~runs'[r].resumed =>
               /\ runs'[r].id \in DOMAIN progress_file'
               /\ progress_file'[runs'[r].id].chunks
                    = PlanChunks(runs'[r].total_size)
               /\ \A k \in DOMAIN progress_file'[runs'[r].id].chunks :
                     ~progress_file'[runs'[r].id].chunks[k].complete
       /\ (next_id' /= next_id /\ next_id' \notin DOMAIN progress_file') =>
             /\ runs' = runs
             /\ downloads' = downloads
       /\ \A r \in DOMAIN runs' : \A k \in DOMAIN runs'[r].tasks :
            (/\ Requested(runs'[r].tasks[k])
             /\ runs'[r].pc = "join"
             /\ runs'[r].id \in DOMAIN downloads') =>
                runs'[r].id \in DOMAIN progress_file']_vars

\* The save of the first start failed and nothing runs for its id; the
\* second download streams a chunk, its initial record on disk.
C17_Witness ==
    /\ next_id = 2
    /\ ~Registered(1)
    /\ \A r \in DOMAIN runs : runs[r].id = 2
    /\ 2 \in DOMAIN progress_file
    /\ \A k \in DOMAIN progress_file[2].chunks : ~progress_file[2].chunks[k].complete
    /\ \E r \in DOMAIN runs : \E k \in DOMAIN runs[r].tasks :
          runs[r].tasks[k].pc = "stream"

\* The per-chunk completion flags of a record.
CompletionFlags(progress) ==
    [k \in DOMAIN progress.chunks |-> progress.chunks[k].complete]

\* C18: when pause_download(id) returns Ok (the one step on a registered
\* session that leaves every task where it was), the session's cancel flag
\* is set, its state is Paused, and the completion flags of the persisted
\* record equal those of the session in memory.
C18_PausePersists ==
    [][\A id \in DOMAIN downloads :
          (id \in DOMAIN downloads' /\ runs' = runs) =>
             /\ downloads'[id].cancel_flag
             /\ downloads'[id].status.status = "Paused"
             /\ id \in DOMAIN progress_file'
             /\ CompletionFlags(progress_file'[id])
                  = CompletionFlags(downloads'[id].progress)]_vars

\* A paused session with one chunk complete and one not, the record on disk
\* saying the same.
C18_Witness ==
    /\ Registered(1)
    /\ downloads[1].cancel_flag
    /\ downloads[1].status.status = "Paused"
    /\ 1 \in DOMAIN progress_file
    /\ CompletionFlags(progress_file[1]) = CompletionFlags(downloads[1].progress)
    /\ \E k, j \in DOMAIN progress_file[1].chunks :
          /\ progress_file[1].chunks[k].complete
          /\ ~progress_file[1].chunks[j].complete

\* C19: a failure to deliver an event never fails the download or the start
\* call: no session is Failed on account of an emission, and every registered
\* download has had its download task spawned.
C19_EmitNeverFails ==
    \A id \in DOMAIN downloads :
        /\ downloads[id].status.error /= Some("Emit error")
        /\ \E r \in DOMAIN runs : runs[r].id = id

\* C20: a run whose destination path is empty at finalize time is rejected
\* or falls back to a destination: no session is Complete while its finished
\* file still lies at the partial path.
C20_CompletePromoted ==
    \A id \in DOMAIN downloads :
        downloads[id].status.status = "Complete" => id \notin DOMAIN partial_path

\* A command returns to the observed caller in this step.
Called(op) == ret'.calls = ret.calls + 1 /\ ret'.op = op

\* The session and the files kept under `id`.
Kept(id) ==
    << IF id \in DOMAIN downloads THEN Some(downloads[id]) ELSE None,
       IF id \in DOMAIN progress_file THEN Some(progress_file[id]) ELSE None,
       IF id \in DOMAIN partial_path THEN Some(partial_path[id]) ELSE None >>

\* C21: cancel_download(id) returns success for every id, registered or not,
\* and leaves the id out of the registry; on an id that is not registered (an
\* unknown id, or one cancelled before) it changes neither the registry nor
\* any file; it never changes the session or the files of another id.
C21_CancelIdempotent ==
    [][Called("cancel") =>
         /\ ret'.result = Ok(<<>>)
         /\ ret'.id \notin DOMAIN downloads'
         /\ ret'.id \notin DOMAIN downloads =>
              downloads' = downloads /\ disk' = disk
         /\ \A other \in ApiIds \ {ret'.id} : Kept(other)' = Kept(other)]_vars

\* A second cancel of a download that was started returned.
C21_Witness ==
    /\ ret.op = "cancel"
    /\ ret.prev = <<"cancel", ret.id>>
    /\ ret.id \in 1..next_id
    /\ ret.result.ok

\* C22: pause_download(id) and get_download_status(id) on an id the registry
\* does not hold return "Download not found" and leave the registry, with
\* every session's cancel flag, and every persisted record unchanged.
C22_UnknownIdNotFound ==
    [][(Called("pause") \/ Called("status")) /\ ret'.id \notin DOMAIN downloads =>
         /\ ret'.result = Err("Download not found")
         /\ downloads' = downloads
         /\ progress_file' = progress_file]_vars

\* pause after get_download_status on the id never handed out, both refused,
\* while another download is registered and has its record on disk.
C22_Witness ==
    /\ ret.op = "pause"
    /\ ret.prev = <<"status", ret.id>>
    /\ ret.id \notin 1..next_id
    /\ ~ret.result.ok
    /\ downloads # << >>
    /\ progress_file # << >>

\* C23: resume_download(id) when no record can be loaded for the id (no
\* progress file: never saved, or removed by completion or by cancel; or a
\* file that does not parse) returns "No progress file found", registers no
\* session and spawns no task.
C23_ResumeNeedsRecord ==
    [][/\ Called("resume")
       /\ \/ ret'.id \notin DOMAIN progress_file
          \/ progress_file[ret'.id] = Unparseable
       => /\ ret'.result = Err("No progress file found")
          /\ downloads' = downloads
          /\ runs' = runs
          /\ disk' = disk]_vars

\* resume was refused for a download whose record the cancel before it had
\* removed.
C23_Witness ==
    /\ ret.op = "resume"
    /\ ret.prev = <<"cancel", ret.id>>
    /\ ret.id \in 1..next_id
    /\ ret.result = Err("No progress file found")
    /\ ret.id \notin DOMAIN progress_file

\* C24: every session of the registry that is Failed carries a non-empty
\* error; every session that is Downloading, Verifying or Complete carries
\* none.
C24_ErrorIffFailed ==
    \A id \in DOMAIN downloads :
        LET status == downloads[id].status
        IN /\ status.status = "Failed" =>
                IsSome(status.error) /\ Unwrap(status.error) # ""
           /\ status.status \in {"Downloading", "Verifying", "Complete"} =>
                status.error = None

\* A download failed after it had written bytes.
C24_Witness ==
    \E id \in DOMAIN downloads :
        /\ downloads[id].status.status = "Failed"
        /\ IsSome(downloads[id].status.error)
        /\ downloads[id].status.downloaded > 0

\* The download's task has run to its end with the session Complete.
ReachedComplete(id) ==
    /\ Registered(id)
    /\ downloads[id].status.status = "Complete"
    /\ \A r \in DOMAIN runs : runs[r].id = id => Finished(runs[r])

\* C25: once a download has reached Complete neither its progress record nor
\* its .partial file exists, and no later step re-creates the record; while a
\* session is Paused its progress record exists.
C25_FilesFollowState ==
    /\ [](\A id \in Ids :
            ReachedComplete(id) =>
                id \notin DOMAIN progress_file /\ id \notin DOMAIN partial_path)
    /\ [][\A id \in Ids :
            ReachedComplete(id) /\ id \notin DOMAIN progress_file =>
                id \notin DOMAIN progress_file']_vars
    /\ [](\A id \in Ids :
            Registered(id) /\ downloads[id].status.status = "Paused" =>
                id \in DOMAIN progress_file)

\* C26: when the fan-in of a run returns the Err of a chunk task, it is the
\* Err of the chunk task of that run that failed first in time.
C26_FirstErrorInTime ==
    [][\A r \in 1..MaxRuns :
          AtPc(r, "join") /\ r \in DOMAIN runs' /\ runs'[r].pc = "handler" =>
              runs'[r].result = runs[r].first_error]_vars

\* C27: a chunk's complete flag turns true in the registry only when the
\* task marking it has fetched exactly end - start + 1 bytes.
C27_CompleteMeansWholeRange ==
    [][\A id \in Ids :
          Registered(id) /\ id \in DOMAIN downloads' /\ Len(runs') = Len(runs) =>
              \A c \in DOMAIN downloads[id].progress.chunks :
                  LET before == downloads[id].progress.chunks[c]
                      after == downloads'[id].progress.chunks[c]
                  IN ~before.complete /\ after.complete =>
                        after.downloaded = before.end - before.start + 1]_vars

\* C28: a chunk task that makes its cancel check while the registry holds its
\* session with the flag set sends no request, writes nothing, leaves the
\* registry (its chunk incomplete) as it was and returns Err("Cancelled").
C28_CancelCheckStopsTask ==
    [][\A r \in 1..MaxRuns, k \in 1..num_chunks(MaxSize) :
          /\ TaskAt(r, k, "check")
          /\ Run(r).id \in DOMAIN downloads
          /\ downloads[Run(r).id].cancel_flag
          /\ r \in DOMAIN runs'
          /\ k \in DOMAIN runs'[r].tasks => runs'[r].tasks[k] # Task(r, k)
          => /\ k \in DOMAIN runs'[r].tasks =>
                  /\ runs'[r].tasks[k].pc = "err"
                  /\ runs'[r].tasks[k].result = Some("Cancelled")
             /\ disk' = disk
             /\ downloads' = downloads
             /\ permits' = permits + 1]_vars

\* A chunk task returned Err("Cancelled") and its chunk is incomplete in the
\* registry, the session paused.
C28_Witness ==
    \E r \in DOMAIN runs : \E k \in DOMAIN runs[r].tasks :
        /\ runs[r].tasks[k].result = Some("Cancelled")
        /\ Registered(runs[r].id)
        /\ downloads[runs[r].id].cancel_flag
        /\ \A c \in FindChunk(downloads[runs[r].id].progress.chunks,
                              runs[r].tasks[k].chunk.index) :
              ~downloads[runs[r].id].progress.chunks[c].complete

\* C29: between a start or resume of a download and the next resume, the
\* byte count of its status, which every download-progress event and status
\* snapshot copies under the registry lock, never decreases.
C29_DownloadedMonotonic ==
    [][\A id \in Ids :
          Registered(id) /\ id \in DOMAIN downloads' /\ Len(runs') = Len(runs) =>
              downloads'[id].status.downloaded >= downloads[id].status.downloaded]_vars

\* Two chunk tasks of one run have both written bytes and the session counts
\* the bytes of both.
C29_Witness ==
    \E r \in DOMAIN runs : \E j, k \in DOMAIN runs[r].tasks :
        /\ j # k
        /\ runs[r].tasks[j].chunk_downloaded > 0
        /\ runs[r].tasks[k].chunk_downloaded > 0
        /\ Registered(runs[r].id)
        /\ downloads[runs[r].id].status.downloaded >=
              runs[r].tasks[j].chunk_downloaded + runs[r].tasks[k].chunk_downloaded

\* The order in which guards nest: the permit outermost, the flag inside the
\* registry; the file's guard nests with neither.
LockOrder(lock) ==
    IF lock = "semaphore" THEN 0
    ELSE IF lock = "registry" THEN 1
    ELSE IF lock = "cancel_flag" THEN 2
    ELSE 3

\* The process can take its next step even if read guards queue behind
\* waiting writers.
CanStep(p) ==
    /\ locks.pc[p] # "done"
    /\ Wants(p) # NoLock => GrantableFair(Wants(p))

\* C30: a chunk task never holds the file's mutex while it holds or waits for
\* the registry's lock or the cancel flag's, nor the reverse; every guard is
\* taken in one nesting order; and while a chunk task, pause, cancel or status
\* call is unfinished, one of them can take a step.
C30_NoDeadlock ==
    /\ \A p \in ChunkTasks :
         /\ HoldsLock(p, "file") =>
              /\ ~HoldsLock(p, "registry") /\ ~HoldsLock(p, "cancel_flag")
              /\ Wants(p) = NoLock
         /\ HoldsLock(p, "registry") \/ HoldsLock(p, "cancel_flag") =>
              Wants(p) = NoLock \/ Wants(p)[1] # "file"
    /\ \A p \in Procs :
         Wants(p) # NoLock =>
            \A h \in locks.held[p] : LockOrder(h[1]) < LockOrder(Wants(p)[1])
    /\ (\E p \in Procs : locks.pc[p] # "done") => \E p \in Procs : CanStep(p)

\* Every lock is contended at once: one chunk task holds the file's mutex
\* and another waits for it, the third waits for a permit, pause holds the
\* registry and the flag, cancel and status wait for the registry.
C30_Witness ==
    /\ \E p, q, w \in ChunkTasks :
         /\ HoldsLock(p, "file")
         /\ Wants(q) = <<"file", "mutex">>
         /\ Wants(w) = <<"semaphore", "permit">>
    /\ HoldsLock("pause", "cancel_flag")
    /\ Wants("cancel") = <<"registry", "write">>
    /\ Wants("status") = <<"registry", "read">>

\* C31: within one run no chunk task sends more than one range request and
\* no two tasks fetch the same chunk; a task that has returned is not started
\* again; a run one of whose chunk tasks failed leaves its fan-in only through
\* the error handler, which sets the registered session Failed.
C31_NoRetry ==
    /\ [](\A r \in DOMAIN runs : \A j, k \in DOMAIN runs[r].tasks :
            /\ runs[r].tasks[k].requests <= 1
            /\ j # k => runs[r].tasks[j].chunk.index # runs[r].tasks[k].chunk.index)
    /\ [][\A r \in DOMAIN runs :
            /\ \A k \in DOMAIN runs[r].tasks :
                  runs[r].tasks[k].pc \in {"ok", "err"} /\ k \in DOMAIN runs'[r].tasks
                     => runs'[r].tasks[k] = runs[r].tasks[k]
            /\ AtPc(r, "join") /\ (\E k \in DOMAIN runs[r].tasks : runs[r].tasks[k].pc = "err")
                  => runs'[r].pc \in {"join", "handler"}
            /\ AtPc(r, "handler") /\ runs'[r].pc # "handler" /\ runs[r].id \in DOMAIN downloads
                  => downloads'[runs[r].id].status.status = "Failed"]_vars

\* A chunk task failed after its one request while the other chunk's task of
\* the run completed, and the fan-in has returned the error to the handler.
C31_Witness ==
    \E r \in DOMAIN runs : \E j, k \in DOMAIN runs[r].tasks :
        /\ runs[r].tasks[j].pc = "err"
        /\ runs[r].tasks[j].requests = 1
        /\ runs[r].tasks[k].pc = "ok"
        /\ runs[r].pc = "handler"
        /\ runs[r].result = runs[r].tasks[j].result
        /\ Registered(runs[r].id)

\* C32: every registered session has chunks_completed <= chunks_total and
\* downloaded <= total_size, so that its progress is at most 100.
C32_CountersBounded ==
    \A id \in DOMAIN downloads :
        /\ downloads[id].status.chunks_completed <= downloads[id].status.chunks_total
        /\ downloads[id].status.downloaded <= downloads[id].status.total_size
        /\ downloads[id].status.progress <= 100

\* C33: every registered session's chunks_completed equals the number of its
\* chunks whose complete flag is set.
C33_CompletedCountsFlags ==
    \A id \in DOMAIN downloads :
        downloads[id].status.chunks_completed
            = Cardinality({k \in DOMAIN downloads[id].progress.chunks :
                             downloads[id].progress.chunks[k].complete})

\* C34: whenever a chunk task has read the cancel flag as set, the call that
\* set it has assigned the session's state: the flag and the state change
\* inside one write guard of the registry, and the task reads the flag inside
\* a read guard of it.
C34_FlagAndStateAtomic ==
    \A p \in ChunkTasks :
        locks.pc[p] = "flagread" /\ locks.cancel_flag => locks.state_set

\* A chunk task reads the flag as set while another chunk task, past its own
\* check, holds the file's mutex.
C34_Witness ==
    \E p, q \in ChunkTasks :
        /\ locks.pc[p] = "flagread"
        /\ locks.cancel_flag
        /\ locks.state_set
        /\ HoldsLock(q, "file")

\* The chunk task k of run r has returned or is gone with its run.
TaskOver(rs, r, k) ==
    r \in DOMAIN rs /\ (k \in DOMAIN rs[r].tasks => rs[r].tasks[k].pc \in {"ok", "err"})

\* C35: every step in which a chunk task holding a permit returns, whatever
\* the exit (Ok, cancellation, request or HTTP error, stream error, seek or
\* write error), gives one permit back; and whenever no chunk task holds a
\* permit all K are available.
C35_PermitsReleased ==
    /\ [][\A h \in Holding :
            TaskOver(runs', h[1], h[2]) => permits' = permits + 1]_vars
    /\ [](Holding = {} => permits = K)

\* After the chunk task of one download failed or was cancelled, the chunk
\* task of the other download holds the only permit.
C35_Witness ==
    \E r, q \in DOMAIN runs :
        /\ runs[r].id # runs[q].id
        /\ 1 \in DOMAIN runs[r].tasks
        /\ runs[r].tasks[1].pc = "err"
        /\ <<q, 1>> \in Holding
        /\ permits = K - 1

\* C36: every chunk task that was spawned eventually returns (so it acquired
\* its permit), and every run that spawned its chunk tasks eventually leaves
\* its fan-in, with more chunk tasks than permits.
C36_TasksTerminate ==
    \A r \in TwoDownloads :
        /\ TaskAt(r, 1, "wait") ~> TaskOver(runs, r, 1)
        /\ AtPc(r, "join") ~> (r \in DOMAIN runs /\ runs[r].pc # "join")

\* The chunk task of one download returned Ok and its run left the fan-in;
\* the chunk task of the other download, which had to wait, holds the permit.
C36_Witness ==
    \E r, q \in DOMAIN runs :
        /\ runs[r].id # runs[q].id
        /\ 1 \in DOMAIN runs[r].tasks
        /\ runs[r].tasks[1].pc = "ok"
        /\ runs[r].pc \notin {"join", "handler"}
        /\ \E k \in DOMAIN runs[q].tasks : <<q, k>> \in Holding
        /\ permits = 0

\* C37: whenever start_chunked_download returns an error, the registry holds
\* no session for the id it generated, no download task was spawned and no
\* partial file was created.
C37_FailedStartLeavesNothing ==
    [][Called("start") /\ ~ret'.result.ok =>
         /\ ret'.id \notin DOMAIN downloads'
         /\ runs' = runs
         /\ partial_path' = partial_path]_vars

\* The events of a run that end it for a listener.
Terminal(run) ==
    SelectSeq(run.events, LAMBDA e : e \in {"download-complete", "download-error"})

\* `event` has reached the listeners for download `id`.
Delivered(id, event) ==
    \E r \in DOMAIN runs :
        /\ runs[r].id = id
        /\ \E i \in DOMAIN runs[r].events : runs[r].events[i] = event

\* A chunk task of run r gets a download-progress event out in this step.
ProgressEvent(r) ==
    /\ r \in DOMAIN runs
    /\ Registered(runs[r].id)
    /\ \E k \in DOMAIN runs[r].tasks :
          /\ runs[r].tasks[k].pc = "update"
          /\ runs'[r].tasks[k].pc = "stream"

====
